---- MODULE Spec2Model ----
(***************************************************************************)
(* A model of mtgs_getprices.py: the GetPrices object, its set-code        *)
(* translator (_convert_setcode), and the get_prices pipeline              *)
(* read_cards -> scrape -> write_cards.                                     *)
(*                                                                         *)
(* Abstractions.                                                           *)
(*  - Money is counted in cents.  A price token of the page ("0.50") is a  *)
(*    string; Float turns it into cents, as float() turns it into dollars. *)
(*    round(x, 2) of a sum of cent amounts is that sum.                    *)
(*  - A csv row is a tuple.  The input file is the sequence of rows that   *)
(*    csv.reader yields after the header verdict of csv.Sniffer was        *)
(*    applied; the quantity column holds a decimal numeral, modelled by    *)
(*    the number int() reads from it.                                      *)
(*  - A URL is the tuple of the parts the code concatenates.               *)
(*  - The page renderer and the price site are the environment: Page(url)  *)
(*    is what regex.search finds in the rendered text, and the renderer    *)
(*    may raise instead of returning.                                      *)
(*  - KeyboardInterrupt is asynchronous: it may arrive between any two     *)
(*    statements of the scrape loop.                                       *)
(***************************************************************************)
EXTENDS Integers, Sequences, FiniteSets, TLC

VARIABLES
    \* the GetPrices object
    set_defs,          \* self._set_defs: the reference table, a sequence of rows
    count,             \* self._count
    count_total,       \* self._count_total
    count_success,     \* self._count_success
    count_failed,      \* self._count_failed
    list_failed,       \* self._list_failed
    total_price_lo,    \* self._total_price_lo  (cents)
    total_price_mid,   \* self._total_price_mid (cents)
    total_price_hi,    \* self._total_price_hi  (cents)
    \* the file system
    input_file,        \* the file at input_path: whether it exists, and its rows
    out_file,          \* rows of the file at output_path
    \* the frame of get_prices
    pc,                \* where the run stands
    overwrite,         \* the overwrite argument of the run
    input_rows,        \* get_prices' input_rows
    output_rows,       \* get_prices' output_rows
    propagating,       \* the exception get_prices is propagating, or "none"
    \* the frame of scrape
    dat,               \* scrape's dat
    counter,           \* scrape's counter
    prices,            \* the regex match of the current row, or NoMatch
    pending,           \* the exception raised inside scrape's try, or "none"
    \* what happened in the run (history, read by the properties only)
    runs,              \* number of get_prices calls started
    write_calls,       \* write_cards calls of the current run
    written,           \* the rows write_cards was given in the current run
    file_before,       \* out_file when the current run started
    read_outcome,      \* how read_cards ended in the current run
    abort_at,          \* the pc the scrape loop was left from, or "none"
    handled,           \* get_prices ran an except clause in the current run
    fetches,           \* renderer.render calls of the current run
    prev_clean,        \* the previous run overwrote and nothing raised in it
    \* a single call of the translator, and of read_cards' row resolution
    t_call,            \* the last _convert_setcode call: arguments and result
    t_card             \* the card the last resolved input row matched, or NoCard

vars == << set_defs, count, count_total, count_success, count_failed,
           list_failed, total_price_lo, total_price_mid, total_price_hi,
           input_file, out_file, pc, overwrite, input_rows, output_rows,
           propagating, dat, counter, prices, pending, runs, write_calls,
           written, file_before, read_outcome, abort_at, handled, fetches,
           prev_clean, t_call, t_card >>

objVars    == << count, count_total, count_success, count_failed, list_failed,
                 total_price_lo, total_price_mid, total_price_hi >>
frameVars  == << pc, overwrite, input_rows, output_rows, propagating >>
scrapeVars == << dat, counter, prices, pending >>
histVars   == << runs, write_calls, written, file_before, read_outcome,
                 abort_at, handled, fetches, prev_clean >>
callVars   == << t_call, t_card >>

-----------------------------------------------------------------------------
(* Bounds of the model. *)

\* longest input file, in rows
MaxLines == 2
\* largest quantity of an input row
MaxQty == 2
\* longest reference table of the translator specification, in rows
MaxTable == 2
\* number of get_prices calls on the one object
MaxRuns == 2

-----------------------------------------------------------------------------
(* The reference table and _convert_setcode. *)

\* the cols dictionary of _convert_setcode, 1-based
Cols == [ name               |-> 1,
          setCode            |-> 2,
          gathererCode       |-> 3,
          oldCode            |-> 4,
          magicCardsInfoCode |-> 5,
          deckstatsCode      |-> 6 ]

Vocabularies == DOMAIN Cols

\* the for loop of _convert_setcode: every matching row overwrites new_code
RECURSIVE ScanRows(_, _, _, _, _)
ScanRows(rows, in_col, out_col, code, new_code) ==
    IF rows = << >>
    THEN new_code
    ELSE ScanRows(Tail(rows), in_col, out_col, code,
                  IF Head(rows)[in_col] = code
                  THEN Head(rows)[out_col]
                  ELSE new_code)

\* a loop that stops at the first matching row
RECURSIVE ScanRowsFirst(_, _, _, _)
ScanRowsFirst(rows, in_col, out_col, code) ==
    IF rows = << >>
    THEN ""
    ELSE IF Head(rows)[in_col] = code
         THEN Head(rows)[out_col]
         ELSE ScanRowsFirst(Tail(rows), in_col, out_col, code)

\* _convert_setcode raises Error for a type that is no key of cols
ConvertRaises(in_type, out_type) ==
    in_type \notin Vocabularies \/ out_type \notin Vocabularies

\* a translator that returns the first match
ConvertSetcodeFirstMatch(code, in_type, out_type) ==
    ScanRowsFirst(set_defs, Cols[in_type], Cols[out_type], code)

\* _convert_setcode, for two types that are keys of cols
ConvertSetcode(code, in_type, out_type) ==
    ScanRows(set_defs, Cols[in_type], Cols[out_type], code, "")

-----------------------------------------------------------------------------
(* The card catalog (MTGJson) and the resolution of one input row. *)

NoCard == [ name |-> "", setCode |-> "", number |-> "" ]

\* the cards of the catalog: name, canonical set code, collector number
Catalog ==
    { [ name |-> "Bolt", setCode |-> "A", number |-> "1" ],
      [ name |-> "Bolt", setCode |-> "B", number |-> ""  ],
      [ name |-> "Opt",  setCode |-> "B", number |-> "7" ] }

\* MTGJson.find_card: the entry with exactly this name and set code
FindCard(name, setCode) ==
    IF \E c \in Catalog : c.name = name /\ c.setCode = setCode
    THEN CHOOSE c \in Catalog : c.name = name /\ c.setCode = setCode
    ELSE NoCard

\* any entry of that name, when the exact lookup misses
FindCardPartial(name, setCode) ==
    IF FindCard(name, setCode) # NoCard
    THEN FindCard(name, setCode)
    ELSE IF \E c \in Catalog : c.name = name
         THEN CHOOSE c \in Catalog : c.name = name
         ELSE NoCard

\* the columns read_cards reads of a row: row[0], row[1], row[4]
RowQty(row)  == row[1]
RowName(row) == row[2]
RowSet(row)  == row[5]

\* a loop body that records the set code as the file holds it
ResolveRowRawCode(acc, row) ==
    LET setCode == ConvertSetcode(RowSet(row), "deckstatsCode", "setCode")
        match   == FindCard(RowName(row), setCode)
    IN  IF match # NoCard
        THEN [ acc EXCEPT !.dat = Append(@, << match, RowQty(row) >>) ]
        ELSE [ acc EXCEPT !.failed = @ + 1,
                          !.list = Append(@, << RowName(row), RowSet(row) >>) ]

\* a loop body that falls back on a partial match
ResolveRowPartial(acc, row) ==
    LET setCode == ConvertSetcode(RowSet(row), "deckstatsCode", "setCode")
        match   == FindCardPartial(RowName(row), setCode)
    IN  IF match # NoCard
        THEN [ acc EXCEPT !.dat = Append(@, << match, RowQty(row) >>) ]
        ELSE [ acc EXCEPT !.failed = @ + 1,
                          !.list = Append(@, << RowName(row), setCode >>) ]

\* the body of read_cards' loop: acc is (dat, _count_failed, _list_failed)
ResolveRow(acc, row) ==
    LET setCode == ConvertSetcode(RowSet(row), "deckstatsCode", "setCode")
        match   == FindCard(RowName(row), setCode)
    IN  IF match # NoCard
        THEN [ acc EXCEPT !.dat = Append(@, << match, RowQty(row) >>) ]
        ELSE [ acc EXCEPT !.failed = @ + 1,
                          !.list = Append(@, << RowName(row), setCode >>) ]

\* read_cards' loop over the rows of the file
RECURSIVE ReadRows(_, _)
ReadRows(rows, acc) ==
    IF rows = << >>
    THEN acc
    ELSE ReadRows(Tail(rows), ResolveRow(acc, Head(rows)))

ReadStart == [ dat |-> << >>, failed |-> count_failed, list |-> list_failed ]

-----------------------------------------------------------------------------
(* The price site, the URL of a card, and the rows of the report. *)

NoMatch == << >>

\* the pages of the site on which SEARCH_PATTERN finds three prices,
\* with the three groups of the match
Listings ==
    { [ url |-> << "page", "s", "1" >>,     groups |-> << "0.50", "0.75", "1.00" >> ],
      [ url |-> << "query", "Bolt", "t" >>, groups |-> << "0.10", "0.25", "0.40" >> ] }

\* regex.search(str(renderer.render(url))): the groups, or no match
Page(url) ==
    IF \E l \in Listings : l.url = url
    THEN (CHOOSE l \in Listings : l.url = url).groups
    ELSE NoMatch

\* float() of a price token, in cents
Float(token) ==
    CASE token = "0.10" -> 10
      [] token = "0.25" -> 25
      [] token = "0.40" -> 40
      [] token = "0.50" -> 50
      [] token = "0.75" -> 75
      [] token = "1.00" -> 100

\* the url scrape builds for a card and its site set code
MakeUrl(card, mci_code) ==
    IF mci_code # ""
    THEN IF card.number # ""
         THEN << "page", mci_code, card.number >>
         ELSE << "query", card.name, mci_code >>
    ELSE << "query", card.name >>

\* the url of an entry of input_rows
UrlOf(row) ==
    MakeUrl(row[1], ConvertSetcode(row[1].setCode, "setCode", "magicCardsInfoCode"))

\* FORMATS_HEADERS[1]
Header ==
    << "CARD NAME", "QTY", "SET", "LOW (ea.)", "MID (ea.)", "HI (ea.)",
       "LOW", "MID", "HI" >>

\* output_row of a row whose page matched
HitRow(card, qty, groups) ==
    << card.name, qty, card.setCode, groups[1], groups[2], groups[3],
       Float(groups[1]) * qty, Float(groups[2]) * qty, Float(groups[3]) * qty >>

\* output_row of a row whose page did not match
MissRow(card, qty) == << card.name, qty, card.setCode >>

\* the row scrape's finally clause appends
TotalRow ==
    << "TOTAL", count_total, "", "", "", "",
       total_price_lo, total_price_mid, total_price_hi >>

-----------------------------------------------------------------------------
(* The inputs of the model. *)

SrcCodes == { "x", "y" }

\* the rows of a deckstats export: amount, card_name, is_foil, is_pinned, set_id;
\* any quantity of "Bolt", and single copies of "Opt"
InputRow ==
    { << q, "Bolt", "0", "0", s >> : q \in 1..MaxQty, s \in SrcCodes }
    \cup { << 1, "Opt", "0", "0", s >> : s \in SrcCodes }

SeqsUpTo(S, n) == UNION { [1..k -> S] : k \in 0..n }

InputFiles ==
    { [ exists |-> FALSE, rows |-> << >> ] }
    \cup { [ exists |-> TRUE, rows |-> r ] : r \in SeqsUpTo(InputRow, MaxLines) }

\* rows of set_defs.csv: name, setCode, gathererCode, oldCode,
\* magicCardsInfoCode, deckstatsCode
RowAlpha     == << "Alpha", "A", "", "", "s", "x" >>
RowBeta      == << "Beta",  "B", "", "", "t", "y" >>
RowBetaNoMci == << "Beta",  "B", "", "", "",  "y" >>
RowBetaDup   == << "Beta",  "B", "", "", "t", "x" >>

\* the reference tables the pipeline is run with
PipelineTables ==
    { << RowAlpha, RowBeta >>, << RowAlpha, RowBetaNoMci >>, << RowAlpha, RowBetaDup >> }

\* the reference tables the translator is called with
TableRow == { << "n", c, "", "", "s", d >> : c \in { "", "A", "B" }, d \in { "", "x", "y" } }
Tables   == SeqsUpTo(TableRow, MaxTable)

-----------------------------------------------------------------------------
(* Initial states. *)

\* _defaults; _count_total, which _defaults leaves out, is set by get_prices
\* before anything reads it
InitObject ==
    /\ count = 0
    /\ count_total = 0
    /\ count_success = 0
    /\ count_failed = 0
    /\ list_failed = << >>
    /\ total_price_lo = 0
    /\ total_price_mid = 0
    /\ total_price_hi = 0

InitFrames ==
    /\ pc = "idle"
    /\ overwrite = FALSE
    /\ input_rows = << >>
    /\ output_rows = << >>
    /\ propagating = "none"
    /\ dat = << >>
    /\ counter = 0
    /\ prices = NoMatch
    /\ pending = "none"

InitHistory ==
    /\ runs = 0
    /\ write_calls = 0
    /\ written = << >>
    /\ file_before = << >>
    /\ read_outcome = "pending"
    /\ abort_at = "none"
    /\ handled = FALSE
    /\ fetches = 0
    /\ prev_clean = FALSE

NoCall == [ code |-> "", in_type |-> "", out_type |-> "", raised |-> FALSE, value |-> "" ]

InitCalls ==
    /\ t_call = NoCall
    /\ t_card = NoCard

\* a constructed GetPrices object, an input file and an empty output file
Init ==
    /\ set_defs \in PipelineTables
    /\ input_file \in InputFiles
    /\ out_file = << >>
    /\ InitObject
    /\ InitFrames
    /\ InitHistory
    /\ InitCalls

-----------------------------------------------------------------------------
(* get_prices and read_cards. *)

\* the counters get_prices resets, keeping _count_total
ResetKeepsTotal ==
    /\ count' = 0
    /\ count_total' = count_total
    /\ count_success' = 0
    /\ count_failed' = 0
    /\ list_failed' = << >>
    /\ total_price_lo' = 0
    /\ total_price_mid' = 0
    /\ total_price_hi' = 0

\* the counters get_prices resets
ResetCounters ==
    /\ count' = 0
    /\ count_total' = 0
    /\ count_success' = 0
    /\ count_failed' = 0
    /\ list_failed' = << >>
    /\ total_price_lo' = 0
    /\ total_price_mid' = 0
    /\ total_price_hi' = 0

\* a call of get_prices, up to the try statement.  The caller calls again on
\* the same object only after a run that no interrupt and no renderer
\* exception cut short; every run starts from the counters reset here and
\* from the output file as the runs before left it.
GetPrices(ow) ==
    /\ pc = "idle"
    /\ runs < MaxRuns
    /\ abort_at = "none"
    /\ propagating = "none"
    /\ ResetCounters
    /\ overwrite' = ow
    /\ input_rows' = << >>
    /\ output_rows' = << >>
    /\ propagating' = "none"
    /\ pc' = "read"
    /\ runs' = runs + 1
    /\ write_calls' = 0
    /\ written' = << >>
    /\ file_before' = out_file
    /\ read_outcome' = "pending"
    /\ abort_at' = "none"
    /\ handled' = FALSE
    /\ fetches' = 0
    /\ prev_clean' = (runs >= 1 /\ overwrite /\ abort_at = "none" /\ propagating = "none")
    /\ UNCHANGED << set_defs, input_file, out_file, scrapeVars, callVars >>

\* a read_cards without the test for an empty result
ReadFailsNever(d) == FALSE

\* read_cards' test for an empty result
ReadFails(d) == Len(d) < 1

\* read_cards: the path is no file
ReadCardsNoFile ==
    /\ pc = "read"
    /\ ~ input_file.exists
    /\ read_outcome' = "InvalidFileError"
    /\ pc' = "handler"
    /\ UNCHANGED << set_defs, objVars, input_file, out_file, overwrite, input_rows,
                    output_rows, propagating, scrapeVars, runs, write_calls, written,
                    file_before, abort_at, handled, fetches, prev_clean, callVars >>

\* read_cards: no row of the file resolved
ReadCardsZero ==
    /\ pc = "read"
    /\ input_file.exists
    /\ LET r == ReadRows(input_file.rows, ReadStart)
       IN  /\ ReadFails(r.dat)
           /\ count_failed' = r.failed
           /\ list_failed' = r.list
    /\ read_outcome' = "ZeroLengthOutputError"
    /\ pc' = "handler"
    /\ UNCHANGED << set_defs, count, count_total, count_success, total_price_lo,
                    total_price_mid, total_price_hi, input_file, out_file, overwrite,
                    input_rows, output_rows, propagating, scrapeVars, runs, write_calls,
                    written, file_before, abort_at, handled, fetches, prev_clean,
                    callVars >>

\* read_cards returns the resolved rows, and get_prices calls scrape
ReadCardsOk ==
    /\ pc = "read"
    /\ input_file.exists
    /\ LET r == ReadRows(input_file.rows, ReadStart)
       IN  /\ ~ ReadFails(r.dat)
           /\ count_failed' = r.failed
           /\ list_failed' = r.list
           /\ count' = Len(r.dat)
           /\ input_rows' = r.dat
    /\ read_outcome' = "ok"
    /\ pc' = "scrape"
    /\ UNCHANGED << set_defs, count_total, count_success, total_price_lo,
                    total_price_mid, total_price_hi, input_file, out_file, overwrite,
                    output_rows, propagating, scrapeVars, runs, write_calls, written,
                    file_before, abort_at, handled, fetches, prev_clean, callVars >>

\* read_cards is interrupted after k rows: KeyboardInterrupt is no Exception,
\* so only the finally clause of get_prices runs
ReadCardsInterrupted ==
    /\ pc = "read"
    /\ input_file.exists
    /\ \E k \in 0..Len(input_file.rows) :
          LET r == ReadRows(SubSeq(input_file.rows, 1, k), ReadStart)
          IN  /\ count_failed' = r.failed
              /\ list_failed' = r.list
    /\ read_outcome' = "KeyboardInterrupt"
    /\ propagating' = "KeyboardInterrupt"
    /\ pc' = "write"
    /\ UNCHANGED << set_defs, count, count_total, count_success, total_price_lo,
                    total_price_mid, total_price_hi, input_file, out_file, overwrite,
                    input_rows, output_rows, scrapeVars, runs, write_calls, written,
                    file_before, abort_at, handled, fetches, prev_clean, callVars >>

\* skipping the write step after an error
HandleErrorNoWrite ==
    /\ pc = "handler"
    /\ handled' = TRUE
    /\ pc' = "idle"
    /\ UNCHANGED << set_defs, objVars, input_file, out_file, overwrite, input_rows,
                    output_rows, propagating, scrapeVars, runs, write_calls, written,
                    file_before, read_outcome, abort_at, fetches, prev_clean, callVars >>

\* the except clauses of get_prices: print, then fall to the finally clause
HandleError ==
    /\ pc = "handler"
    /\ handled' = TRUE
    /\ pc' = "write"
    /\ UNCHANGED << set_defs, objVars, input_file, out_file, overwrite, input_rows,
                    output_rows, propagating, scrapeVars, runs, write_calls, written,
                    file_before, read_outcome, abort_at, fetches, prev_clean, callVars >>

-----------------------------------------------------------------------------
(* scrape. *)

\* the statements of the for loop an interrupt can arrive at
LoopPcs == { "loop", "fetch", "hit", "acc_mid", "acc_hi", "miss", "push" }

\* the row of input_rows the loop is at
CurCard == input_rows[counter][1]
CurQty  == input_rows[counter][2]

\* scrape, up to its try statement
ScrapeBegin ==
    /\ pc = "scrape"
    /\ dat' = << >>
    /\ counter' = 0
    /\ prices' = NoMatch
    /\ pending' = "none"
    /\ pc' = "loop"
    /\ UNCHANGED << set_defs, objVars, input_file, out_file, overwrite, input_rows,
                    output_rows, propagating, histVars, callVars >>

\* the next row: counter, qty, _count_total, mci_code and url
LoopNext ==
    /\ pc = "loop"
    /\ counter < Len(input_rows)
    /\ counter' = counter + 1
    /\ count_total' = count_total + input_rows[counter + 1][2]
    /\ pc' = "fetch"
    /\ UNCHANGED << set_defs, count, count_success, count_failed, list_failed,
                    total_price_lo, total_price_mid, total_price_hi, input_file,
                    out_file, overwrite, input_rows, output_rows, propagating, dat,
                    prices, pending, histVars, callVars >>

\* the for loop is exhausted
LoopEnd ==
    /\ pc = "loop"
    /\ counter = Len(input_rows)
    /\ pc' = "finally"
    /\ UNCHANGED << set_defs, objVars, input_file, out_file, overwrite, input_rows,
                    output_rows, propagating, scrapeVars, histVars, callVars >>

\* renderer.render returns the page, and regex.search is applied to it
Render ==
    /\ pc = "fetch"
    /\ fetches' = fetches + 1
    /\ prices' = Page(UrlOf(input_rows[counter]))
    /\ pc' = IF prices' # NoMatch THEN "hit" ELSE "miss"
    /\ UNCHANGED << set_defs, objVars, input_file, out_file, overwrite, input_rows,
                    output_rows, propagating, dat, counter, pending, runs, write_calls,
                    written, file_before, read_outcome, abort_at, handled, prev_clean,
                    callVars >>

\* renderer.render raises
RenderRaises ==
    /\ pc = "fetch"
    /\ fetches' = fetches + 1
    /\ pending' = "Exception"
    /\ abort_at' = pc
    /\ pc' = "finally"
    /\ UNCHANGED << set_defs, objVars, input_file, out_file, overwrite, input_rows,
                    output_rows, propagating, dat, counter, prices, runs, write_calls,
                    written, file_before, read_outcome, handled, prev_clean, callVars >>

\* a match: _count_success, the line totals, output_row and _total_price_lo
Hit ==
    /\ pc = "hit"
    /\ count_success' = count_success + 1
    /\ total_price_lo' = total_price_lo + Float(prices[1]) * CurQty
    /\ pc' = "acc_mid"
    /\ UNCHANGED << set_defs, count, count_total, count_failed, list_failed,
                    total_price_mid, total_price_hi, input_file, out_file, overwrite,
                    input_rows, output_rows, propagating, scrapeVars, histVars,
                    callVars >>

\* self._total_price_mid += total_price_mid
AccMid ==
    /\ pc = "acc_mid"
    /\ total_price_mid' = total_price_mid + Float(prices[2]) * CurQty
    /\ pc' = "acc_hi"
    /\ UNCHANGED << set_defs, count, count_total, count_success, count_failed,
                    list_failed, total_price_lo, total_price_hi, input_file, out_file,
                    overwrite, input_rows, output_rows, propagating, scrapeVars,
                    histVars, callVars >>

\* self._total_price_hi += total_price_hi
AccHi ==
    /\ pc = "acc_hi"
    /\ total_price_hi' = total_price_hi + Float(prices[3]) * CurQty
    /\ pc' = "push"
    /\ UNCHANGED << set_defs, count, count_total, count_success, count_failed,
                    list_failed, total_price_lo, total_price_mid, input_file, out_file,
                    overwrite, input_rows, output_rows, propagating, scrapeVars,
                    histVars, callVars >>

\* no match: _count_failed, output_row and _list_failed
Miss ==
    /\ pc = "miss"
    /\ count_failed' = count_failed + 1
    /\ list_failed' = Append(list_failed, << CurCard.name, CurCard.setCode >>)
    /\ pc' = "push"
    /\ UNCHANGED << set_defs, count, count_total, count_success, total_price_lo,
                    total_price_mid, total_price_hi, input_file, out_file, overwrite,
                    input_rows, output_rows, propagating, scrapeVars, histVars,
                    callVars >>

\* dat.append(output_row)
Push ==
    /\ pc = "push"
    /\ dat' = Append(dat, IF prices # NoMatch
                          THEN HitRow(CurCard, CurQty, prices)
                          ELSE MissRow(CurCard, CurQty))
    /\ pc' = "loop"
    /\ UNCHANGED << set_defs, objVars, input_file, out_file, overwrite, input_rows,
                    output_rows, propagating, counter, prices, pending, histVars,
                    callVars >>

\* KeyboardInterrupt arrives inside the try statement
Interrupt ==
    /\ pc \in LoopPcs
    /\ pending' = "KeyboardInterrupt"
    /\ abort_at' = pc
    /\ pc' = "finally"
    /\ UNCHANGED << set_defs, objVars, input_file, out_file, overwrite, input_rows,
                    output_rows, propagating, dat, counter, prices, runs, write_calls,
                    written, file_before, read_outcome, handled, fetches, prev_clean,
                    callVars >>

\* what the except clauses of scrape raise for what the try raised
ExceptClause(p) ==
    CASE p = "KeyboardInterrupt" -> "InterruptedScrapeError"
      [] p = "Exception"         -> "Error"
      [] OTHER                   -> "none"

\* a finally clause without a return, which lets the exception pass
FinallyReraise(raised) == raised

\* the exception that leaves scrape: the return of the finally clause drops it
FinallyReturn(raised) == "none"

\* the except and finally clauses: the TOTAL row, and the way out of scrape
ScrapeExit ==
    /\ pc = "finally"
    /\ dat' = Append(dat, TotalRow)
    /\ LET leaving == FinallyReturn(ExceptClause(pending))
       IN  IF leaving = "none"
           THEN /\ output_rows' = dat'
                /\ pc' = "write"
           ELSE /\ output_rows' = output_rows
                /\ pc' = "handler"
    /\ UNCHANGED << set_defs, objVars, input_file, out_file, overwrite, input_rows,
                    propagating, counter, prices, pending, histVars, callVars >>

-----------------------------------------------------------------------------
(* write_cards, called by the finally clause of get_prices. *)

\* a writer that always appends
OpenAppend(ow) == out_file

\* open(path, write_mode): the rows of the file once it is open
Open(ow) == IF ow THEN << >> ELSE out_file

\* the header goes before the rows when the file is empty
WithHeader(opened, output) ==
    IF Len(opened) < 1 THEN << Header >> \o output ELSE output

\* write_cards, after which get_prices returns and its frames are gone
WriteCards ==
    /\ pc = "write"
    /\ out_file' = Open(overwrite) \o WithHeader(Open(overwrite), output_rows)
    /\ write_calls' = write_calls + 1
    /\ written' = output_rows
    /\ pc' = "idle"
    /\ input_rows' = << >>
    /\ output_rows' = << >>
    /\ dat' = << >>
    /\ counter' = 0
    /\ prices' = NoMatch
    /\ pending' = "none"
    /\ UNCHANGED << set_defs, objVars, input_file, overwrite, propagating, runs,
                    file_before, read_outcome, abort_at, handled, fetches, prev_clean,
                    callVars >>

-----------------------------------------------------------------------------
(* The pipeline. *)

Next ==
    \/ \E ow \in BOOLEAN : GetPrices(ow)
    \/ ReadCardsNoFile
    \/ ReadCardsZero
    \/ ReadCardsOk
    \/ ReadCardsInterrupted
    \/ HandleError
    \/ ScrapeBegin
    \/ LoopNext
    \/ LoopEnd
    \/ Render
    \/ RenderRaises
    \/ Hit
    \/ AccMid
    \/ AccHi
    \/ Miss
    \/ Push
    \/ Interrupt
    \/ ScrapeExit
    \/ WriteCards

Spec == Init /\ [][Next]_vars

-----------------------------------------------------------------------------
(* Single calls of the translator and of the row resolution, on any table. *)

Codes    == { "", "A", "B", "x", "y" }
InTypes  == { "setCode", "deckstatsCode", "setcode" }
OutTypes == { "setCode", "deckstatsCode", "magicCardsInfoCode", "mci" }

InitTranslate ==
    /\ set_defs \in Tables
    /\ input_file = [ exists |-> FALSE, rows |-> << >> ]
    /\ out_file = << >>
    /\ InitObject
    /\ InitFrames
    /\ InitHistory
    /\ InitCalls

\* one call _convert_setcode(code, in_type, out_type)
Translate(code, in_type, out_type) ==
    /\ t_call' = [ code |-> code, in_type |-> in_type, out_type |-> out_type,
                   raised |-> ConvertRaises(in_type, out_type),
                   value |-> IF ConvertRaises(in_type, out_type)
                             THEN ""
                             ELSE ConvertSetcode(code, in_type, out_type) ]
    /\ t_card' = NoCard
    /\ UNCHANGED << set_defs, objVars, input_file, out_file, frameVars, scrapeVars,
                    histVars >>

\* read_cards' loop body on one row: the card the row resolved to
Resolve(row) ==
    /\ LET r == ResolveRow([ dat |-> << >>, failed |-> 0, list |-> << >> ], row)
       IN  t_card' = IF r.dat # << >> THEN r.dat[1][1] ELSE NoCard
    /\ t_call' = NoCall
    /\ UNCHANGED << set_defs, objVars, input_file, out_file, frameVars, scrapeVars,
                    histVars >>

NextTranslate ==
    \/ \E code \in Codes, in_type \in InTypes, out_type \in OutTypes :
          Translate(code, in_type, out_type)
    \/ \E row \in InputRow : Resolve(row)

SpecTranslate == InitTranslate /\ [][NextTranslate]_vars

-----------------------------------------------------------------------------
(* What the properties speak of. *)

ScrapePcs == { "scrape", "finally" } \cup LoopPcs

\* the run has returned
Returned == pc = "idle" /\ runs > 0

\* scrape has returned its rows to get_prices, which is about to write them
ScrapeReturned == pc = "write" /\ read_outcome = "ok"

\* the sum of the quantities of the first n entries of rows
RECURSIVE SumQty(_, _)
SumQty(rows, n) == IF n = 0 THEN 0 ELSE SumQty(rows, n - 1) + rows[n][2]

\* the sum of column col over the first n rows that carry prices
RECURSIVE SumCol(_, _, _)
SumCol(rows, n, col) ==
    IF n = 0
    THEN 0
    ELSE SumCol(rows, n - 1, col) + (IF Len(rows[n]) = 9 THEN rows[n][col] ELSE 0)

\* the row of the report an entry of input_rows stands for
ExpectedRow(row) ==
    IF \E l \in Listings : l.url = UrlOf(row)
    THEN HitRow(row[1], row[2], Page(UrlOf(row)))
    ELSE MissRow(row[1], row[2])

\* the canonical code an input row's set code translates to
Translated(row) == ConvertSetcode(RowSet(row), "deckstatsCode", "setCode")

HasEntry(row) ==
    \E c \in Catalog : c.name = RowName(row) /\ c.setCode = Translated(row)

NoEntry(row) == ~ HasEntry(row)

Unresolved == SelectSeq(input_file.rows, NoEntry)
Resolvable == SelectSeq(input_file.rows, HasEntry)

ZeroResolved ==
    input_file.exists /\ \A i \in DOMAIN input_file.rows : NoEntry(input_file.rows[i])

\* the rows of the table whose column col holds code
Matching(code, col) == { i \in DOMAIN set_defs : set_defs[i][col] = code }

MinOf(S) == CHOOSE i \in S : \A j \in S : i <= j
MaxOf(S) == CHOOSE i \in S : \A j \in S : i >= j

ValidCall == t_call.in_type \in Vocabularies /\ t_call.out_type \in Vocabularies

UniqueCanonical ==
    \A i, j \in DOMAIN set_defs : set_defs[i][2] = set_defs[j][2] => i = j

-----------------------------------------------------------------------------
(* C1 *)

\* C1, as stated: whenever scrape hands a result to get_prices, the quantity
\* of its TOTAL row is the sum of the quantities of all rows scrape was given.
C1_TotalQtyIsSumOfAllLines ==
    ScrapeReturned =>
        output_rows[Len(output_rows)][2] = SumQty(input_rows, Len(input_rows))

\* C1, amended: when the loop ran to its end the TOTAL quantity is the sum over
\* all rows scrape was given; when the loop was left early, with m rows in the
\* result, it is the sum over the first m rows, plus the quantity of row m+1
\* when that row had been begun.
C1_TotalQtyIsSumOfBegunLines ==
    ScrapeReturned =>
        LET m     == Len(output_rows) - 1
            total == output_rows[m + 1][2]
        IN  /\ output_rows[m + 1][1] = "TOTAL"
            /\ abort_at = "none" =>
                  m = Len(input_rows) /\ total = SumQty(input_rows, m)
            /\ abort_at = "loop" =>
                  m <= Len(input_rows) /\ total = SumQty(input_rows, m)
            /\ abort_at \notin { "none", "loop" } =>
                  m < Len(input_rows) /\ total = SumQty(input_rows, m + 1)

\* a second run on the object is cut short at the fetch of its second row
C1_Witness ==
    /\ ScrapeReturned
    /\ runs = 2
    /\ abort_at = "fetch"
    /\ Len(output_rows) = 2
    /\ input_rows[1][2] # input_rows[2][2]

-----------------------------------------------------------------------------
(* C2 *)

\* C2: in the result of scrape each price column of the TOTAL row is the sum
\* of that column over exactly the rows of the result that carry a quote; a
\* row without a quote adds nothing.
C2_TotalPricesAreSumOfHitRows ==
    ScrapeReturned =>
        LET m == Len(output_rows) - 1
        IN  \A col \in { 7, 8, 9 } :
                output_rows[m + 1][col] = SumCol(output_rows, m, col)

-----------------------------------------------------------------------------
(* C3 *)

\* C3: in every run write_cards is called exactly once, and only after
\* read_cards and scrape have ended, however they ended: no call while a
\* stage is running, one call when the run has returned; it is given no rows
\* when read_cards failed and the rows up to the TOTAL row when scrape ran.
C3_WriteOnceAfterStages ==
    /\ pc # "idle" => write_calls = 0
    /\ Returned =>
          /\ write_calls = 1
          /\ read_outcome # "pending"
          /\ read_outcome # "ok" => written = << >>
          /\ read_outcome = "ok" =>
                written # << >> /\ written[Len(written)][1] = "TOTAL"

\* a run whose read_cards found nothing has written once, after its handler
C3_Witness ==
    /\ Returned
    /\ read_outcome = "ZeroLengthOutputError"
    /\ handled
    /\ write_calls = 1

-----------------------------------------------------------------------------
(* C4 *)

\* C4: when the loop is left by an interrupt or a renderer exception while row
\* k is processed, write_cards is given the rows of the rows 1..k-1, in input
\* order, and then one TOTAL row.
C4_AbortKeepsProcessedRows ==
    (pc = "write" /\ abort_at # "none") =>
        LET m == IF abort_at = "loop" THEN counter ELSE counter - 1
        IN  /\ Len(output_rows) = m + 1
            /\ \A i \in 1..m : output_rows[i] = ExpectedRow(input_rows[i])
            /\ output_rows[m + 1][1] = "TOTAL"

\* the renderer raises at the second row, the first row being in the result
C4_Witness ==
    /\ pc = "write"
    /\ abort_at = "fetch"
    /\ pending = "Exception"
    /\ counter = 2
    /\ Len(output_rows) = 2

-----------------------------------------------------------------------------
(* C5 *)

\* C5: an interrupt or a renderer exception inside the loop reaches
\* get_prices as an error, so that get_prices runs an except clause before
\* it writes.
C5_AbortReachesHandler ==
    (pc = "write" /\ abort_at # "none") => handled

-----------------------------------------------------------------------------
(* C6 *)

SourcePair(row)     == << RowName(row), RowSet(row) >>
TranslatedPair(row) == << RowName(row), Translated(row) >>

SourcePairs     == [ i \in 1..Len(Unresolved) |-> SourcePair(Unresolved[i]) ]
TranslatedPairs == [ i \in 1..Len(Unresolved) |-> TranslatedPair(Unresolved[i]) ]

\* what read_cards leaves when it ends, for the pairs it is to record
ReadLeaves(pairs) ==
    /\ count_failed = Len(Unresolved)
    /\ list_failed = pairs

ReadEnded ==
    \/ pc = "scrape"
    \/ pc = "handler" /\ read_outcome = "ZeroLengthOutputError"

\* the rows scrape is given are the rows with a catalog entry, in order
OnlyResolvedRowsAreScraped ==
    pc \in ScrapePcs =>
        input_rows = [ i \in 1..Len(Resolvable) |->
                         << FindCard(RowName(Resolvable[i]), Translated(Resolvable[i])),
                            RowQty(Resolvable[i]) >> ]

\* C6, as stated: a row without a catalog entry is not given to scrape, counts
\* as one failure, and is recorded as (name, set code as written in the file).
C6_FailureListHoldsSourceCode ==
    /\ OnlyResolvedRowsAreScraped
    /\ ReadEnded => ReadLeaves(SourcePairs)

\* C6, amended: a row without a catalog entry is not given to scrape, counts
\* as one failure, and is recorded as (name, canonical set code its set code
\* translates to), the empty string when the table has no row for it.
C6_FailureListHoldsTranslatedCode ==
    /\ OnlyResolvedRowsAreScraped
    /\ ReadEnded => ReadLeaves(TranslatedPairs)

\* read_cards resolved one row of two
C6_Witness ==
    /\ pc = "scrape"
    /\ Len(input_rows) = 1
    /\ count_failed = 1
    /\ list_failed[1][2] # RowSet(Unresolved[1])

-----------------------------------------------------------------------------
(* C7 *)

-----------------------------------------------------------------------------
(* C8 *)

\* C8, as stated: a call with two valid types raises nothing and returns the
\* target column of the first row whose source column holds the code, the
\* empty string when there is none.
C8_FirstMatchWins ==
    ValidCall =>
        /\ ~ t_call.raised
        /\ LET M == Matching(t_call.code, Cols[t_call.in_type])
           IN  t_call.value = IF M = {} THEN ""
                              ELSE set_defs[MinOf(M)][Cols[t_call.out_type]]

\* C8, amended: a call with two valid types raises nothing and returns the
\* target column of the last row whose source column holds the code, the
\* empty string when there is none or when that column is empty.
C8_LastMatchWins ==
    ValidCall =>
        /\ ~ t_call.raised
        /\ LET M == Matching(t_call.code, Cols[t_call.in_type])
           IN  t_call.value = IF M = {} THEN ""
                              ELSE set_defs[MaxOf(M)][Cols[t_call.out_type]]

\* a call whose code is held by two rows with different targets
C8_Witness ==
    /\ ValidCall
    /\ LET M == Matching(t_call.code, Cols[t_call.in_type])
       IN  /\ Cardinality(M) >= 2
           /\ set_defs[MinOf(M)][Cols[t_call.out_type]]
                 # set_defs[MaxOf(M)][Cols[t_call.out_type]]

-----------------------------------------------------------------------------
(* C9 *)

\* C9: with unique canonical codes in the table, the canonical set code of a
\* resolved row, when it and its export code are not empty, translates to the
\* export vocabulary and back to itself.
C9_RoundTrip ==
    LET canonical == t_card.setCode
        export    == ConvertSetcode(canonical, "setCode", "deckstatsCode")
    IN  (t_card # NoCard /\ UniqueCanonical /\ canonical # "" /\ export # "") =>
            ConvertSetcode(export, "deckstatsCode", "setCode") = canonical

\* a row resolved through an export code that two sets share
C9_Witness ==
    /\ t_card # NoCard
    /\ UniqueCanonical
    /\ Cardinality(Matching(
           ConvertSetcode(t_card.setCode, "setCode", "deckstatsCode"), 6)) >= 2

-----------------------------------------------------------------------------
(* C10 *)

\* C10: a run with overwrite, after a run with overwrite on the same object
\* and input, neither of them interrupted, leaves the file as the first run
\* left it.
C10_SecondOverwriteRunSameFile ==
    (Returned /\ runs >= 2 /\ overwrite /\ prev_clean
        /\ abort_at = "none" /\ propagating = "none") =>
        out_file = file_before

\* two such runs that wrote a header, a priced row and a TOTAL row
C10_Witness ==
    /\ Returned
    /\ runs = 2
    /\ overwrite
    /\ prev_clean
    /\ abort_at = "none"
    /\ propagating = "none"
    /\ count_success >= 1
    /\ Len(out_file) >= 3

====
